---- MODULE Spec2Model ----
(***************************************************************************)
(* Model of the CV181x eFuse driver                                        *)
(* (linux_5.10/drivers/efuse/cv181x_efuse.c).                              *)
(*                                                                         *)
(* 32-bit data words are sets of bit positions (a subset of 0..31), so    *)
(* that the bitwise operators of the driver are set operations and the     *)
(* full 32-bit width is kept.  A 64-bit signed value (int64_t ret) is a   *)
(* subset of 0..63 in two's complement: it is negative iff bit 63 is set. *)
(* Addresses, sizes, counts and errno values are integers.                 *)
(***************************************************************************)
EXTENDS Integers, Sequences, FiniteSets, TLC

\* ------------------------------------------------------------------ constants

EFUSE_SIZE == 256
EFUSE_BIT_AREAD == 1
EFUSE_BIT_MREAD == 2
EFUSE_BIT_PRG == 4
EFUSE_BIT_PWR_DN == 8
EFUSE_BIT_CMD == 16
EFUSE_CMD_REFRESH == 48
SHADOW_OFF == 256
EFAULT == 14
EIO == 5
EINVAL == 22
ENOTTY == 25
WRITE_DISABLED_RET == -1

\* physical rows of the fuse macro: two per 32-bit shadow word
NumRows == 2 * (EFUSE_SIZE \div 4)
Rows == 0 .. (NumRows - 1)
WordIdx == 0 .. ((EFUSE_SIZE \div 4) - 1)
Bits32 == 0 .. 31
Bits64 == 0 .. 63

\* ------------------------------------------------------------------ bounds

\* largest number of program pulses a single row pass may need
MaxPulses == 2
\* number of write sequences one behaviour of the write path performs
MaxCalls == 2
\* strides of a buffer read at which the clock enable may be made to fail
MaxFailStride == 2
\* number of concurrent callers of the device
NumCallers == 2

\* ------------------------------------------------------------------ words

\* the powers of two 2^0 .. 2^30
Pow2Tab ==
    <<1, 2, 4, 8, 16, 32, 64, 128, 256, 512, 1024, 2048, 4096, 8192,
      16384, 32768, 65536, 131072, 262144, 524288, 1048576, 2097152,
      4194304, 8388608, 16777216, 33554432, 67108864, 134217728,
      268435456, 536870912, 1073741824>>
Pow2(n) == Pow2Tab[n + 1]

\* the bit positions set in a non-negative integer below 2^31
BitsOf(n) == {i \in 0 .. 30 : (n \div Pow2(i)) % 2 = 1}

RECURSIVE SumBits(_, _)
\* the weights of the bit positions i..30 that are in s
SumBits(s, i) == IF i > 30 THEN 0
                 ELSE (IF i \in s THEN Pow2(i) ELSE 0) + SumBits(s, i + 1)
\* the integer whose set bits are s (s within 0..30)
ValOf(s) == SumBits(s, 0)

\* int -> int64_t (sign extension of a small integer)
I64(n) == IF n >= 0 THEN BitsOf(n) ELSE Bits64 \ BitsOf((-n) - 1)
\* uint32_t -> int64_t as if the word were read as a signed int
I64FromU32_signed(w) == IF 31 \in w THEN w \cup (32 .. 63) ELSE w
\* uint32_t -> int64_t (zero extension)
I64FromU32(w) == w \cap Bits32
IsNeg64(r) == 63 \in r
\* int64_t -> uint32_t (truncation)
U32FromI64(r) == r \cap Bits32
\* int64_t -> int (truncation to 32 bits, then two's complement value)
IntFromI64(r) ==
    LET t == r \cap Bits32
    IN IF 31 \in t THEN (-ValOf(Bits32 \ t)) - 1 ELSE ValOf(t)

\* byte k (0..3) of a 32-bit word, little-endian, as an integer 0..255
ByteOf(w, k) == ValOf({b - 8 * k : b \in {x \in w : x \div 8 = k}})

\* ------------------------------------------------------------------ state

VARIABLES
    fuse,      \* physical rows: [arr |-> bits an array-read sees as 1,
               \*                 mrg |-> bits a margin-read sees as 1]
    shadow,    \* shadow window: word index -> 32-bit word
    MODE,      \* MODE register (last value written)
    ADR,       \* ADR register
    RD_DATA,   \* READ-DATA register
    busy,      \* STATUS busy bit
    clk,       \* enable count of efuse_clk
    offset,    \* file offset of the open character device
    last,      \* the last completed public operation and its result
    pc,        \* position of the write sequence
    wr,        \* locals of the write sequence
    calls,     \* write sequences performed so far
    snap,      \* fuse rows and shadow as the first write sequence left them
    thr        \* concurrent callers of the device: position and locals of each

vars == <<fuse, shadow, MODE, ADR, RD_DATA, busy, clk, offset, last, pc, wr,
          calls, snap, thr>>

MinOf(S) == CHOOSE x \in S : \A y \in S : x <= y

\* ------------------------------------------------------------------ fuse images

Row(a, m) == [arr |-> a, mrg |-> m]
Blank == Row({}, {})

\* the fuse contents a behaviour may start from: image 0 is a blank array,
\* image 1 a partly programmed one (with one weakly programmed bit in row 2)
FuseImage(k) ==
    [r \in Rows |->
        IF k = 0 THEN Blank
        ELSE CASE r = 0 -> Row(Bits32 \ {0, 1}, Bits32 \ {0, 1})
               [] r = 1 -> Row(Bits32 \ {0}, Bits32 \ {0})
               [] r = 2 -> Row({0, 1}, {0})
               [] r = 3 -> Row({2, 3}, {2, 3})
               [] r = 4 -> Row({0, 9}, {0, 9})
               [] r = 5 -> Row({16, 17, 26}, {16, 17, 26})
               [] r = 6 -> Row({31}, {31})
               [] r = NumRows - 2 -> Row({0, 31}, {0, 31})
               [] OTHER -> Blank]
Images == {0, 1}

\* the shadow window after a refresh: each word mirrors its two physical rows
Refreshed(f) == [w \in WordIdx |-> f[2 * w].arr \cup f[2 * w + 1].arr]

\* ------------------------------------------------------------------ clock

Ev(e, a, c) == [ev |-> e, a |-> a, clk |-> c]

\* clk_prepare_enable: r is what the clock framework returns (0 or -errno)
clk_prepare_enable(c, r) == IF r = 0 THEN c + 1 ELSE c
clk_disable_unprepare(c) == c - 1

\* ------------------------------------------------------------------ shadow read

cvi_efuse_read_from_shadow_nodisable(addr, clk_ret, c, sh) ==
    IF addr >= EFUSE_SIZE \/ addr % 4 # 0
    THEN [ret |-> I64(-EFAULT), log |-> <<>>, clk |-> c]
    ELSE IF clk_ret # 0
    THEN [ret |-> I64(clk_ret), log |-> <<Ev("clk_enable_fail", clk_ret, c)>>, clk |-> c]
    ELSE [ret |-> I64FromU32(sh[addr \div 4]),
          log |-> <<Ev("clk_enable", 0, c + 1), Ev("mmio_read", SHADOW_OFF + addr, c + 1)>>,
          clk |-> c + 1]

cvi_efuse_read_from_shadow_noalign(addr, clk_ret, c, sh) ==
    IF addr >= EFUSE_SIZE
    THEN [ret |-> I64(-EFAULT), log |-> <<>>, clk |-> c]
    ELSE IF clk_ret # 0
    THEN [ret |-> I64(clk_ret), log |-> <<Ev("clk_enable_fail", clk_ret, c)>>, clk |-> c]
    ELSE [ret |-> I64FromU32(sh[addr \div 4]),
          log |-> <<Ev("clk_enable", 0, c + 1), Ev("mmio_read", SHADOW_OFF + addr, c + 1),
                    Ev("clk_disable", 0, c)>>,
          clk |-> c]

\* int64_t cvi_efuse_read_from_shadow(uint32_t addr)
cvi_efuse_read_from_shadow(addr, clk_ret, c, sh) ==
    IF addr >= EFUSE_SIZE
    THEN [ret |-> I64(-EFAULT), log |-> <<>>, clk |-> c]
    ELSE IF addr % 4 # 0
    THEN [ret |-> I64(-EFAULT), log |-> <<>>, clk |-> c]
    ELSE LET c1 == clk_prepare_enable(c, clk_ret)
         IN IF clk_ret # 0
            THEN [ret |-> I64(clk_ret),
                  log |-> <<Ev("clk_enable_fail", clk_ret, c1)>>, clk |-> c1]
            ELSE LET c2 == clk_disable_unprepare(c1)
                 IN [ret |-> I64FromU32(sh[addr \div 4]),
                     log |-> <<Ev("clk_enable", 0, c1),
                               Ev("mmio_read", SHADOW_OFF + addr, c1),
                               Ev("clk_disable", 0, c2)>>,
                     clk |-> c2]

\* ------------------------------------------------------------------ buffer read

MemIdx == 0 .. (EFUSE_SIZE - 1)
\* memory at the destination pointer, every byte holding b
MemFill(b) == [k \in MemIdx |-> b]

\* what clk_prepare_enable returns in stride number k of a buffer read that
\* is made to fail at stride number failAt (-1: never)
ClkRetAt(failAt, k) == IF k = failAt THEN -EINVAL ELSE 0

\* the destination after memset(buf, 0, n) followed, for every stride offset
\* i in copied, by memcpy(buf + i, &v, sizeof(v)) of the shadow word at
\* addr + i (little-endian)
buf_after(pre, n, copied, addr, sh) ==
    [k \in MemIdx |->
        IF (k - (k % 4)) \in copied
        THEN ByteOf(sh[(addr + k - (k % 4)) \div 4], k % 4)
        ELSE IF k < n THEN 0 ELSE pre[k]]

\* the destination offsets the memset and the memcpy calls store to
buf_written(n, copied) ==
    (0 .. (n - 1)) \cup UNION {i .. (i + 3) : i \in copied}

RECURSIVE read_buf_loop_break(_, _, _, _, _, _)
read_buf_loop_break(addr, i, n, st, failAt, sh) ==
    IF i >= n
    THEN [ret |-> n, log |-> st.log, clk |-> st.clk, copied |-> st.copied,
          reads |-> st.reads]
    ELSE LET r == cvi_efuse_read_from_shadow(addr + i, ClkRetAt(failAt, i \div 4),
                                             st.clk, sh)
             lg == st.log \o r.log
             rd == Append(st.reads, addr + i)
         IN IF IsNeg64(r.ret)
            THEN [ret |-> n, log |-> lg, clk |-> r.clk,
                  copied |-> st.copied, reads |-> rd]
            ELSE read_buf_loop_break(addr, i + 4, n,
                     [log |-> lg, clk |-> r.clk,
                      copied |-> IF r.ret # {} THEN st.copied \cup {i}
                                 ELSE st.copied,
                      reads |-> rd], failAt, sh)

RECURSIVE read_buf_loop(_, _, _, _, _, _)
\* the for loop of cvi_efuse_read_buf, from stride offset i
read_buf_loop(addr, i, n, st, failAt, sh) ==
    IF i >= n
    THEN [ret |-> n, log |-> st.log, clk |-> st.clk, copied |-> st.copied,
          reads |-> st.reads]
    ELSE LET r == cvi_efuse_read_from_shadow(addr + i, ClkRetAt(failAt, i \div 4),
                                             st.clk, sh)
             lg == st.log \o r.log
             rd == Append(st.reads, addr + i)
         IN IF IsNeg64(r.ret)
            THEN [ret |-> IntFromI64(r.ret), log |-> lg, clk |-> r.clk,
                  copied |-> st.copied, reads |-> rd]
            ELSE read_buf_loop(addr, i + 4, n,
                     [log |-> lg, clk |-> r.clk,
                      copied |-> IF r.ret # {} THEN st.copied \cup {i}
                                 ELSE st.copied,
                      reads |-> rd], failAt, sh)

cvi_efuse_read_buf_noclamp(addr, buf_null, buf_size, mem, failAt, c, sh) ==
    LET r == read_buf_loop(addr, 0, buf_size,
                 [log |-> <<>>, clk |-> c, copied |-> {}, reads |-> <<>>],
                 failAt, sh)
        n == IF buf_size > EFUSE_SIZE THEN EFUSE_SIZE ELSE buf_size
    IN [ret |-> r.ret, mem |-> buf_after(mem, n, r.copied, addr, sh),
        log |-> r.log, clk |-> r.clk, written |-> buf_written(n, r.copied),
        reads |-> r.reads]

\* int cvi_efuse_read_buf(u32 addr, void *buf, size_t buf_size)
cvi_efuse_read_buf(addr, buf_null, buf_size, mem, failAt, c, sh) ==
    IF buf_null
    THEN [ret |-> -EFAULT, mem |-> mem, log |-> <<>>, clk |-> c,
          written |-> {}, reads |-> <<>>]
    ELSE LET n == IF buf_size > EFUSE_SIZE THEN EFUSE_SIZE ELSE buf_size
             r == read_buf_loop(addr, 0, n,
                      [log |-> <<>>, clk |-> c, copied |-> {}, reads |-> <<>>],
                      failAt, sh)
         IN [ret |-> r.ret, mem |-> buf_after(mem, n, r.copied, addr, sh),
             log |-> r.log, clk |-> r.clk, written |-> buf_written(n, r.copied),
             reads |-> r.reads]

\* ------------------------------------------------------------------ write entry

\* the write entry with its body compiled in, every pulse taking effect
cvi_efuse_write_enabled(addr, value, f, sh) ==
    IF addr >= EFUSE_SIZE \/ addr % 4 # 0
    THEN [ret |-> -EFAULT, fuse |-> f, shadow |-> sh, log |-> <<>>]
    ELSE LET w == addr \div 4
             g == [r \in Rows |->
                     IF r \in {2 * w, 2 * w + 1}
                     THEN Row(f[r].arr \cup value, f[r].mrg \cup value)
                     ELSE f[r]]
         IN [ret |-> 0, fuse |-> g, shadow |-> Refreshed(g),
             log |-> <<Ev("clk_enable", 0, 1), Ev("write_word", w, 1),
                       Ev("clk_disable", 0, 0)>>]

\* int cvi_efuse_write(uint32_t addr, uint32_t value): the body is compiled
\* out (#if 0), the function returns -1
cvi_efuse_write(addr, value, f, sh) ==
    [ret |-> WRITE_DISABLED_RET, fuse |-> f, shadow |-> sh, log |-> <<>>]

\* ------------------------------------------------------------------ file operations

\* efuse_read(file, buf, count, offset); kmem is the content of the
\* uninitialised kernel_buf, fault whether copy_to_user fails
efuse_read(count, off, kmem, fault, failAt, c, sh) ==
    IF off >= EFUSE_SIZE
    THEN [ret |-> 0, off |-> off, out |-> <<>>, log |-> <<>>, clk |-> c]
    ELSE LET cnt == IF off + count > EFUSE_SIZE THEN EFUSE_SIZE - off ELSE count
             r == cvi_efuse_read_buf(off, FALSE, cnt, kmem, failAt, c, sh)
         IN IF r.ret < 0
            THEN [ret |-> r.ret, off |-> off, out |-> <<>>, log |-> r.log, clk |-> r.clk]
            ELSE IF fault
            THEN [ret |-> -EFAULT, off |-> off, out |-> <<>>, log |-> r.log, clk |-> r.clk]
            ELSE [ret |-> r.ret, off |-> off + r.ret,
                  out |-> [k \in 1 .. r.ret |-> r.mem[k - 1]],
                  log |-> r.log, clk |-> r.clk]

\* efuse_write(file, buf, count, offset); the user buffer holds addr, value
efuse_write(count, addr, value, fault, off, f, sh) ==
    IF count # 8
    THEN [ret |-> -EINVAL, off |-> off, fuse |-> f, shadow |-> sh, log |-> <<>>]
    ELSE IF fault
    THEN [ret |-> -EFAULT, off |-> off, fuse |-> f, shadow |-> sh, log |-> <<>>]
    ELSE LET r == cvi_efuse_write(addr, value, f, sh)
         IN IF r.ret < 0
            THEN [ret |-> r.ret, off |-> off, fuse |-> r.fuse, shadow |-> r.shadow,
                  log |-> r.log]
            ELSE [ret |-> count, off |-> off + count, fuse |-> r.fuse,
                  shadow |-> r.shadow, log |-> r.log]

\* efuse_ioctl(file, cmd, arg); arg points to {addr, value}
efuse_ioctl(cmd, addr, value, fault_in, fault_out, clk_ret, c, f, sh) ==
    LET same == [fuse |-> f, shadow |-> sh, clk |-> c, log |-> <<>>, value |-> value]
    IN IF fault_in
       THEN [ret |-> -EFAULT] @@ same
       ELSE CASE cmd = "EFUSE_IOC_READ" ->
                   LET r == cvi_efuse_read_from_shadow(addr, clk_ret, c, sh)
                       dn == [fuse |-> f, shadow |-> sh, clk |-> r.clk, log |-> r.log]
                   IN IF IsNeg64(r.ret)
                      THEN [ret |-> IntFromI64(r.ret), value |-> value] @@ dn
                      ELSE IF fault_out
                      THEN [ret |-> -EFAULT, value |-> value] @@ dn
                      ELSE [ret |-> 0, value |-> U32FromI64(r.ret)] @@ dn
              [] cmd = "EFUSE_IOC_WRITE" ->
                   LET r == cvi_efuse_write(addr, value, f, sh)
                   IN [ret |-> IF r.ret < 0 THEN r.ret ELSE 0, fuse |-> r.fuse,
                       shadow |-> r.shadow, clk |-> c, log |-> r.log, value |-> value]
              [] OTHER -> [ret |-> -ENOTTY] @@ same

\* ------------------------------------------------------------------ inputs

Addrs == {0, 2, 4, 252, 256, 257}
Sizes == {0, 1, 4, 5, 8, 256, 1000}
Counts == {1, 5, 64, 256, 1000}
Values == {{}, {0, 1, 2, 3}, {0, 31}, Bits32}
Fills == {0, 170}
ClkRets == {0, -EINVAL}
FailAts == -1 .. MaxFailStride
Cmds == {"EFUSE_IOC_READ", "EFUSE_IOC_WRITE", "OTHER"}

\* ------------------------------------------------------------------ public operations

NoOp == [op |-> "none", a |-> 0, n |-> 0, ret |-> 0, r64 |-> {}, val |-> {},
         log |-> <<>>,
         mem |-> MemFill(0), pre |-> MemFill(0), written |-> {}, reads |-> <<>>,
         out |-> <<>>, off |-> 0, clk0 |-> 0, failAt |-> -1, fault |-> FALSE]

Callers == 1 .. NumCallers
\* a caller that has not opened the device
ThrIdle == [pc |-> "closed", addr |-> 0, ret |-> {}]

WrIdle == [addr |-> 0, val |-> {}, j |-> 0, i |-> 0, type |-> "EFUSE_AREAD",
           row_val |-> {}, zero_bit |-> {}, new_value |-> {}, err_cnt |-> 0,
           fail |-> {}, nprog |-> 0, ran |-> FALSE, wret |-> 0, ret |-> 0,
           aread |-> <<>>, trace |-> <<>>]

WriteUnchanged == UNCHANGED <<pc, wr, calls, snap, thr>>
RegsUnchanged == UNCHANGED <<MODE, ADR, RD_DATA, busy>>

Init ==
    /\ \E k \in Images : fuse = FuseImage(k)
    /\ shadow = Refreshed(fuse)
    /\ MODE = 0 /\ ADR = 0 /\ RD_DATA = {} /\ busy = FALSE
    /\ clk = 0
    /\ offset = 0
    /\ last = NoOp
    /\ pc = "idle" /\ wr = WrIdle /\ calls = 0
    /\ snap = [fuse |-> fuse, shadow |-> shadow, addr |-> 0, val |-> {},
               ret |-> 0, nprog |-> 0, ran |-> FALSE]
    /\ thr = [p \in Callers |-> ThrIdle]

\* a caller of the exported cvi_efuse_read_from_shadow
ReadShadow ==
    \E addr \in Addrs, cr \in ClkRets :
        LET r == cvi_efuse_read_from_shadow(addr, cr, clk, shadow)
        IN /\ pc = "idle" /\ last.op = "none"
           /\ clk' = r.clk
           /\ last' = [NoOp EXCEPT !.op = "read_shadow", !.a = addr,
                          !.r64 = r.ret,
                          !.ret = IF IsNeg64(r.ret) THEN IntFromI64(r.ret) ELSE 0,
                          !.log = r.log, !.clk0 = clk]
           /\ UNCHANGED <<fuse, shadow, offset>>
           /\ RegsUnchanged /\ WriteUnchanged

\* a caller of the exported cvi_efuse_read_buf
ReadBuf ==
    \E addr \in Addrs, size \in Sizes, fill \in Fills, failAt \in FailAts,
       buf_null \in BOOLEAN :
        LET r == cvi_efuse_read_buf(addr, buf_null, size, MemFill(fill), failAt,
                                    clk, shadow)
        IN /\ pc = "idle" /\ last.op = "none"
           /\ buf_null => (addr = 0 /\ size = 4 /\ failAt = -1)
           /\ clk' = r.clk
           /\ last' = [NoOp EXCEPT !.op = IF buf_null THEN "read_buf_null" ELSE "read_buf",
                          !.a = addr, !.n = size, !.ret = r.ret, !.log = r.log,
                          !.mem = r.mem, !.pre = MemFill(fill),
                          !.written = r.written, !.reads = r.reads, !.clk0 = clk,
                          !.failAt = failAt]
           /\ UNCHANGED <<fuse, shadow, offset>>
           /\ RegsUnchanged /\ WriteUnchanged

\* a caller of the exported cvi_efuse_write
CviEfuseWrite ==
    \E addr \in Addrs, value \in Values :
        LET r == cvi_efuse_write(addr, value, fuse, shadow)
        IN /\ pc = "idle" /\ last.op = "none"
           /\ fuse' = r.fuse /\ shadow' = r.shadow
           /\ last' = [NoOp EXCEPT !.op = "cvi_efuse_write", !.a = addr,
                          !.val = value, !.ret = r.ret, !.log = r.log, !.clk0 = clk]
           /\ UNCHANGED <<clk, offset>>
           /\ RegsUnchanged /\ WriteUnchanged

\* read(2) on the character device
EfuseRead ==
    \E count \in Counts, fill \in Fills, fault \in BOOLEAN, failAt \in FailAts :
        LET r == efuse_read(count, offset, MemFill(fill), fault, failAt, clk, shadow)
        IN /\ pc = "idle" /\ last.op = "none"
           /\ clk' = r.clk
           /\ offset' = r.off
           /\ last' = [NoOp EXCEPT !.op = "efuse_read", !.n = count, !.ret = r.ret,
                          !.log = r.log, !.out = r.out, !.off = offset, !.clk0 = clk,
                          !.failAt = failAt, !.fault = fault]
           /\ UNCHANGED <<fuse, shadow>>
           /\ RegsUnchanged /\ WriteUnchanged

\* write(2) on the character device
EfuseWrite ==
    \E count \in {4, 8}, addr \in Addrs, value \in Values, fault \in BOOLEAN :
        LET r == efuse_write(count, addr, value, fault, offset, fuse, shadow)
        IN /\ pc = "idle" /\ last.op = "none"
           /\ fuse' = r.fuse /\ shadow' = r.shadow
           /\ offset' = r.off
           /\ last' = [NoOp EXCEPT !.op = "efuse_write", !.a = addr, !.n = count,
                          !.val = value, !.ret = r.ret, !.log = r.log,
                          !.off = offset, !.clk0 = clk]
           /\ UNCHANGED clk
           /\ RegsUnchanged /\ WriteUnchanged

\* ioctl(2) on the character device
EfuseIoctl ==
    \E cmd \in Cmds, addr \in Addrs, value \in Values, fault_in \in BOOLEAN,
       fault_out \in BOOLEAN, cr \in ClkRets :
        LET r == efuse_ioctl(cmd, addr, value, fault_in, fault_out, cr, clk,
                             fuse, shadow)
        IN /\ pc = "idle" /\ last.op = "none"
           \* inputs the command does not read are not varied
           /\ cmd = "EFUSE_IOC_READ" => value = {}
           /\ cmd = "EFUSE_IOC_WRITE" => (cr = 0 /\ ~fault_out)
           /\ cmd = "OTHER" => (addr = 0 /\ value = {} /\ cr = 0 /\ ~fault_out)
           /\ fuse' = r.fuse /\ shadow' = r.shadow
           /\ clk' = r.clk
           /\ last' = [NoOp EXCEPT !.op = cmd, !.a = addr, !.val = r.value,
                          !.ret = r.ret, !.log = r.log, !.clk0 = clk]
           /\ UNCHANGED offset
           /\ RegsUnchanged /\ WriteUnchanged

\* the caller takes the result; the device is idle again
Return ==
    /\ pc = "idle" /\ last.op # "none"
    /\ last' = NoOp
    /\ UNCHANGED <<fuse, shadow, clk, offset>>
    /\ RegsUnchanged /\ WriteUnchanged

Next ==
    \/ Return
    \/ ReadShadow
    \/ ReadBuf
    \/ CviEfuseWrite
    \/ EfuseRead
    \/ EfuseWrite
    \/ EfuseIoctl

Spec == Init /\ [][Next]_vars

\* ------------------------------------------------------------------ fuse macro

\* bitwise OR of two small register values
BitOrInt(a, b) == ValOf(BitsOf(a) \cup BitsOf(b))
\* bitwise OR of three small register values
BitOr3(a, b, c) == ValOf(BitsOf(a) \cup BitsOf(b) \cup BitsOf(c))
HasBits(v, m) == BitsOf(m) \subseteq BitsOf(v)

\* the states a fuse bit may be in after a program pulse: it stays as it was,
\* becomes weakly programmed (seen by the array-read only) or fully
\* programmed; a programmed bit never reverts
Pulsed(row, b) ==
    {Row(row.arr \cup a, row.mrg \cup m) :
        <<a, m>> \in {<<{}, {}>>, <<{b}, {}>>, <<{b}, {b}>>}}

\* the fuse macro completes the command last written to MODE
HwDone ==
    /\ busy
    /\ busy' = FALSE
    /\ LET r == ADR % NumRows
           b == (ADR \div NumRows) % 32
       IN CASE MODE = EFUSE_CMD_REFRESH ->
                 /\ shadow' = Refreshed(fuse)
                 /\ UNCHANGED <<fuse, RD_DATA>>
            [] MODE # EFUSE_CMD_REFRESH /\ HasBits(MODE, EFUSE_BIT_PRG) ->
                 /\ \E nr \in Pulsed(fuse[r], b) : fuse' = [fuse EXCEPT ![r] = nr]
                 /\ UNCHANGED <<shadow, RD_DATA>>
            [] MODE # EFUSE_CMD_REFRESH /\ ~HasBits(MODE, EFUSE_BIT_PRG)
                 /\ HasBits(MODE, EFUSE_BIT_AREAD) ->
                 /\ RD_DATA' = fuse[r].arr
                 /\ UNCHANGED <<fuse, shadow>>
            [] MODE # EFUSE_CMD_REFRESH /\ ~HasBits(MODE, EFUSE_BIT_PRG)
                 /\ ~HasBits(MODE, EFUSE_BIT_AREAD)
                 /\ HasBits(MODE, EFUSE_BIT_MREAD) ->
                 /\ RD_DATA' = fuse[r].mrg
                 /\ UNCHANGED <<fuse, shadow>>
            [] OTHER -> UNCHANGED <<fuse, shadow, RD_DATA>>
    /\ UNCHANGED <<MODE, ADR, clk, offset, last, pc, wr, calls, snap, thr>>

\* ------------------------------------------------------------------ write path

\* cvi_efuse_power_on: the value mmio_setbits_32 writes to MODE
cvi_efuse_power_on(mode, on) ==
    IF on THEN BitOrInt(mode, EFUSE_BIT_CMD)
    ELSE BitOrInt(mode, BitOrInt(EFUSE_BIT_PWR_DN, EFUSE_BIT_CMD))

phy_addr_noshift(word_addr, bit_addr, high_row) ==
    BitOr3((bit_addr % 32) * 128, word_addr % 64, high_row)
phy_addr_shift6(word_addr, bit_addr, high_row) ==
    BitOr3((bit_addr % 32) * 64, (word_addr % 64) * 2, high_row)
\* cvi_efuse_prog_bit: the composite physical address written to ADR
phy_addr(word_addr, bit_addr, high_row) ==
    BitOr3((bit_addr % 32) * 128, (word_addr % 64) * 2, high_row)

\* cvi_efuse_write_word: the row address passed to cvi_efuse_read_from_phy
phy_word_addr(vir_word_addr, j) == BitOrInt(vir_word_addr * 2, j)

read_cmd_nostrobe(type) ==
    IF type = "EFUSE_AREAD" THEN EFUSE_BIT_AREAD ELSE EFUSE_BIT_MREAD
\* cvi_efuse_read_from_phy: the command written to MODE
read_cmd(type) ==
    IF type = "EFUSE_AREAD" THEN BitOrInt(EFUSE_BIT_AREAD, EFUSE_BIT_CMD)
    ELSE BitOrInt(EFUSE_BIT_MREAD, EFUSE_BIT_CMD)

zero_bit_all(val, row_val) == val
\* zero_bit = val & (~row_val)
zero_bit_of(val, row_val) == val \ row_val

\* (val & new_value) != val
check_failed(val, new_value) == (val \cap new_value) # val

write_word_ret_never(err_cnt) == 0
write_word_ret_any(err_cnt) == IF err_cnt >= 1 THEN -EIO ELSE 0
\* return err_cnt >= 2 ? -EIO : 0
write_word_ret(err_cnt) == IF err_cnt >= 2 THEN -EIO ELSE 0

\* cvi_efuse_wait_for_ready: the spin ends when the busy bit is read as 0
cvi_efuse_wait_for_ready_timeout(b) == TRUE
cvi_efuse_wait_for_ready(b) == ~b

MaxOf(S) == CHOOSE x \in S : \A y \in S : x >= y

\* the loop "for (i = 0; i < 32; i++) if ((zero_bit >> i) & 1)": the first bit
\* it programs, and whether a bit is left after bit i
first_prog_bit_high(z) == MaxOf(z)
first_prog_bit(z) == MinOf(z)
bits_after(z, i) == {x \in z : x > i}

\* the loop "for (j = 0; j < 2; j++)" of cvi_efuse_write_word: where control
\* goes after the margin-read check of row j
after_check_refresh_each(j) == "refresh"
after_check(j) == IF j + 1 < 2 THEN "rp_pwr" ELSE "refresh"

\* one register access of the write sequence: fn the function performing
\* it, c its kind (pwr, wait, adr, aread, mread, rd, prog, refresh), j the
\* row pass, a the address or bit index it carries
Tr(fn, c, j, a) == [fn |-> fn, c |-> c, j |-> j, a |-> a]

Snap(f, sh, w) == [fuse |-> f, shadow |-> sh, addr |-> w.addr, val |-> w.val,
                   ret |-> w.ret, nprog |-> w.nprog, ran |-> w.ran]

HwUnchanged == UNCHANGED <<fuse, shadow, RD_DATA>>

\* the call is over: count it and keep what the first one left behind
Finish(w) ==
    /\ pc' = "idle"
    /\ wr' = w
    /\ calls' = calls + 1
    /\ snap' = IF calls = 0 THEN Snap(fuse, shadow, w) ELSE snap

\* entry of the write sequence (the body of cvi_efuse_write under #if 0):
\* address checks and clock enable
WriteStart ==
    \E addr \in Addrs, value \in Values, cr \in ClkRets :
        LET w0 == [WrIdle EXCEPT !.addr = addr, !.val = value]
        IN /\ pc = "idle" /\ calls < MaxCalls
           \* a later call repeats the first one (write twice in succession)
           /\ calls > 0 => (addr = snap.addr /\ value = snap.val)
           /\ last' = NoOp
           /\ IF addr >= EFUSE_SIZE \/ addr % 4 # 0
              THEN /\ cr = 0 /\ value = {}
                   /\ Finish([w0 EXCEPT !.ret = -EFAULT])
                   /\ UNCHANGED clk
              ELSE /\ \A j \in {0, 1} :
                        Cardinality(value \ fuse[2 * (addr \div 4) + j].arr)
                            <= MaxPulses
                   /\ IF cr # 0
                      THEN /\ value = {}
                           /\ Finish([w0 EXCEPT !.ret = cr])
                           /\ UNCHANGED clk
                      ELSE /\ clk' = clk_prepare_enable(clk, cr)
                           /\ pc' = "rp_pwr"
                           /\ wr' = w0
                           /\ UNCHANGED <<calls, snap>>
           /\ UNCHANGED <<MODE, ADR, busy, offset>>
           /\ HwUnchanged /\ UNCHANGED thr

\* cvi_efuse_read_from_phy: cvi_efuse_power_on(1)
RpPwr ==
    /\ pc = "rp_pwr"
    /\ MODE' = cvi_efuse_power_on(MODE, TRUE)
    /\ busy' = (busy \/ HasBits(MODE', EFUSE_BIT_CMD))
    /\ pc' = "rp_cmd"
    /\ wr' = [wr EXCEPT !.trace = Append(@, Tr("read_from_phy", "pwr", wr.j, 0))]
    /\ UNCHANGED <<ADR, clk, offset, last, calls, snap>>
    /\ HwUnchanged /\ UNCHANGED thr

\* cvi_efuse_read_from_phy: wait for ready, write ADR, write the read command
RpCmd ==
    /\ pc = "rp_cmd" /\ cvi_efuse_wait_for_ready(busy)
    /\ ADR' = phy_word_addr(wr.addr \div 4, wr.j)
    /\ MODE' = read_cmd(wr.type)
    /\ busy' = (busy \/ HasBits(MODE', EFUSE_BIT_CMD))
    /\ pc' = "rp_rd"
    /\ wr' = [wr EXCEPT !.trace = @ \o
                  <<Tr("read_from_phy", "wait", wr.j, 0),
                    Tr("read_from_phy", "adr", wr.j, ADR'),
                    Tr("read_from_phy",
                       IF wr.type = "EFUSE_AREAD" THEN "aread" ELSE "mread",
                       wr.j, ADR')>>]
    /\ UNCHANGED <<clk, offset, last, calls, snap>>
    /\ HwUnchanged /\ UNCHANGED thr

\* cvi_efuse_read_from_phy: wait for ready, read RD_DATA; then the caller's
\* use of the value in cvi_efuse_write_word
RpRd ==
    /\ pc = "rp_rd" /\ cvi_efuse_wait_for_ready(busy)
    /\ LET t == wr.trace \o <<Tr("read_from_phy", "wait", wr.j, 0),
                              Tr("read_from_phy", "rd", wr.j, ADR)>>
       IN IF wr.type = "EFUSE_AREAD"
          THEN LET z == zero_bit_of(wr.val, RD_DATA)
               IN IF z = {}
                  THEN /\ wr' = [wr EXCEPT !.row_val = RD_DATA, !.zero_bit = z,
                                           !.type = "EFUSE_MREAD",
                                           !.aread = Append(@, RD_DATA),
                                           !.trace = t]
                       /\ pc' = "rp_pwr"
                  ELSE /\ wr' = [wr EXCEPT !.row_val = RD_DATA, !.zero_bit = z,
                                           !.i = first_prog_bit(z),
                                           !.aread = Append(@, RD_DATA),
                                           !.trace = t]
                       /\ pc' = "pb"
          ELSE LET e == IF check_failed(wr.val, RD_DATA) THEN wr.err_cnt + 1
                        ELSE wr.err_cnt
                   f == wr.fail \cup (IF e > wr.err_cnt THEN {wr.j} ELSE {})
               IN IF after_check(wr.j) = "refresh"
                  THEN /\ wr' = [wr EXCEPT !.new_value = RD_DATA, !.err_cnt = e,
                                           !.fail = f, !.trace = t]
                       /\ pc' = "refresh"
                  ELSE /\ wr' = [wr EXCEPT !.new_value = RD_DATA, !.err_cnt = e,
                                           !.fail = f, !.trace = t,
                                           !.j = wr.j + 1, !.type = "EFUSE_AREAD"]
                       /\ pc' = after_check(wr.j)
    /\ UNCHANGED <<MODE, ADR, busy, clk, offset, last, calls, snap>>
    /\ HwUnchanged /\ UNCHANGED thr

\* cvi_efuse_prog_bit for the next set bit of zero_bit: wait for ready, write
\* ADR, write the program command
Pb ==
    /\ pc = "pb" /\ cvi_efuse_wait_for_ready(busy)
    /\ ADR' = phy_addr(wr.addr \div 4, wr.i, wr.j)
    /\ MODE' = BitOrInt(EFUSE_BIT_PRG, EFUSE_BIT_CMD)
    /\ busy' = (busy \/ HasBits(MODE', EFUSE_BIT_CMD))
    /\ LET rest == bits_after(wr.zero_bit, wr.i)
           t == wr.trace \o <<Tr("prog_bit", "wait", wr.j, 0),
                              Tr("prog_bit", "adr", wr.j, ADR'),
                              Tr("prog_bit", "prog", wr.j, wr.i)>>
       IN IF rest = {}
          THEN /\ wr' = [wr EXCEPT !.nprog = @ + 1, !.type = "EFUSE_MREAD",
                                   !.trace = t]
               /\ pc' = "rp_pwr"
          ELSE /\ wr' = [wr EXCEPT !.nprog = @ + 1, !.i = first_prog_bit(rest),
                                   !.trace = t]
               /\ pc' = "pb"
    /\ UNCHANGED <<clk, offset, last, calls, snap>>
    /\ HwUnchanged /\ UNCHANGED thr

\* cvi_efuse_write_word: cvi_efuse_refresh() and the return value
WwRefresh ==
    /\ pc = "refresh"
    /\ MODE' = EFUSE_CMD_REFRESH
    /\ busy' = (busy \/ HasBits(MODE', EFUSE_BIT_CMD))
    /\ wr' = [wr EXCEPT !.wret = write_word_ret(wr.err_cnt), !.ran = TRUE,
                        !.trace = Append(@, Tr("write_word", "refresh", wr.j, 0))]
    /\ pc' = "w_pwr"
    /\ UNCHANGED <<ADR, clk, offset, last, calls, snap>>
    /\ HwUnchanged /\ UNCHANGED thr

\* cvi_efuse_write: cvi_efuse_power_on(1)
WPwr ==
    /\ pc = "w_pwr"
    /\ MODE' = cvi_efuse_power_on(MODE, TRUE)
    /\ busy' = (busy \/ HasBits(MODE', EFUSE_BIT_CMD))
    /\ pc' = "w_refresh"
    /\ wr' = [wr EXCEPT !.trace = Append(@, Tr("write", "pwr", wr.j, 0))]
    /\ UNCHANGED <<ADR, clk, offset, last, calls, snap>>
    /\ HwUnchanged /\ UNCHANGED thr

\* cvi_efuse_write: cvi_efuse_refresh()
WRefresh ==
    /\ pc = "w_refresh"
    /\ MODE' = EFUSE_CMD_REFRESH
    /\ busy' = (busy \/ HasBits(MODE', EFUSE_BIT_CMD))
    /\ pc' = "w_wait"
    /\ wr' = [wr EXCEPT !.trace = Append(@, Tr("write", "refresh", wr.j, 0))]
    /\ UNCHANGED <<ADR, clk, offset, last, calls, snap>>
    /\ HwUnchanged /\ UNCHANGED thr

\* cvi_efuse_write: wait for ready, disable the clock, return ret
WReturn ==
    /\ pc = "w_wait" /\ cvi_efuse_wait_for_ready(busy)
    /\ clk' = clk_disable_unprepare(clk)
    /\ Finish([wr EXCEPT !.ret = wr.wret,
                         !.trace = Append(@, Tr("write", "wait", wr.j, 0))])
    /\ UNCHANGED <<MODE, ADR, busy, offset, last>>
    /\ HwUnchanged /\ UNCHANGED thr

\* read back the word just written through the shadow window
ReadBack ==
    \E cr \in ClkRets :
        LET r == cvi_efuse_read_from_shadow(wr.addr, cr, clk, shadow)
        IN /\ pc = "idle" /\ last.op = "none" /\ calls > 0
           /\ clk' = r.clk
           /\ last' = [NoOp EXCEPT !.op = "read_shadow", !.a = wr.addr,
                          !.r64 = r.ret,
                          !.ret = IF IsNeg64(r.ret) THEN IntFromI64(r.ret) ELSE 0,
                          !.log = r.log, !.clk0 = clk]
           /\ UNCHANGED <<fuse, shadow, offset>>
           /\ RegsUnchanged /\ WriteUnchanged

NextWrite ==
    \/ WriteStart
    \/ RpPwr
    \/ RpCmd
    \/ RpRd
    \/ Pb
    \/ WwRefresh
    \/ WPwr
    \/ WRefresh
    \/ WReturn
    \/ HwDone
    \/ ReadBack

SpecWrite == Init /\ [][NextWrite]_vars

\* the steps of the thread running the write sequence, once it has started
WriteStep ==
    \/ RpPwr
    \/ RpCmd
    \/ RpRd
    \/ Pb
    \/ WwRefresh
    \/ WPwr
    \/ WRefresh
    \/ WReturn

\* the thread keeps running and the fuse macro completes every command
SpecWriteFair == SpecWrite /\ WF_vars(WriteStep) /\ WF_vars(HwDone)

\* ------------------------------------------------------------------ register functions

\* the values MODE may hold before a call of cvi_efuse_power_on
ModeValues == 0 .. 63
\* the word addresses cvi_efuse_prog_bit may be called with ("7-bits (0-127)")
WordAddrs == 0 .. 127

InitFn ==
    /\ fuse = FuseImage(0)
    /\ shadow = Refreshed(fuse)
    /\ MODE \in ModeValues
    /\ ADR = 0 /\ RD_DATA = {} /\ busy = FALSE
    /\ clk = 0
    /\ offset = 0
    /\ last = NoOp
    /\ pc = "idle" /\ wr = WrIdle /\ calls = 0
    /\ snap = [fuse |-> fuse, shadow |-> shadow, addr |-> 0, val |-> {},
               ret |-> 0, nprog |-> 0, ran |-> FALSE]
    /\ thr = [p \in Callers |-> ThrIdle]

\* cvi_efuse_power_on(on)
PowerOn ==
    \E on \in BOOLEAN :
        /\ last.op = "none"
        /\ MODE' = cvi_efuse_power_on(MODE, on)
        /\ busy' = (busy \/ HasBits(MODE', EFUSE_BIT_CMD))
        /\ last' = [NoOp EXCEPT !.op = "power_on", !.a = MODE,
                       !.n = IF on THEN 1 ELSE 0]
        /\ UNCHANGED <<fuse, shadow, ADR, RD_DATA, clk, offset>>
        /\ WriteUnchanged

\* cvi_efuse_prog_bit(word_addr, bit_addr, high_row), called from an idle macro
ProgBit ==
    \E word \in WordAddrs, bit \in Bits32, row \in {0, 1} :
        /\ last.op = "none"
        /\ cvi_efuse_wait_for_ready(busy)
        /\ ADR' = phy_addr(word, bit, row)
        /\ MODE' = BitOrInt(EFUSE_BIT_PRG, EFUSE_BIT_CMD)
        /\ busy' = (busy \/ HasBits(MODE', EFUSE_BIT_CMD))
        /\ last' = [NoOp EXCEPT !.op = "prog_bit", !.a = word, !.n = bit,
                       !.off = row]
        /\ UNCHANGED <<fuse, shadow, RD_DATA, clk, offset>>
        /\ WriteUnchanged

NextFn ==
    \/ PowerOn
    \/ ProgBit

SpecFn == InitFn /\ [][NextFn]_vars

\* ------------------------------------------------------------------ concurrent callers

\* what a step of caller p leaves alone besides clk and thr
ConcUnchanged ==
    /\ UNCHANGED <<fuse, shadow, offset, last, pc, wr, calls, snap>>
    /\ RegsUnchanged

\* efuse_open: returns 0 whoever else holds the device open
efuse_open(others_open) == 0

\* open(2) by caller p
COpen ==
    \E p \in Callers :
        /\ thr[p].pc = "closed"
        /\ efuse_open({q \in Callers \ {p} : thr[q].pc # "closed"}) = 0
        /\ thr' = [thr EXCEPT ![p].pc = "open"]
        /\ UNCHANGED clk
        /\ ConcUnchanged

\* close(2) by caller p (efuse_release): returns 0 whatever was called before
CRelease ==
    \E p \in Callers :
        /\ thr[p].pc = "open"
        /\ thr' = [thr EXCEPT ![p].pc = "closed"]
        /\ UNCHANGED clk
        /\ ConcUnchanged

\* caller p enters cvi_efuse_read_from_shadow (EFUSE_IOC_READ takes no lock
\* on the way): the two address checks
CEnter ==
    \E p \in Callers, addr \in Addrs :
        /\ thr[p].pc = "open"
        /\ IF addr >= EFUSE_SIZE \/ addr % 4 # 0
           THEN thr' = [thr EXCEPT ![p] = [pc |-> "open", addr |-> addr,
                                           ret |-> I64(-EFAULT)]]
           ELSE thr' = [thr EXCEPT ![p] = [pc |-> "enable", addr |-> addr,
                                           ret |-> {}]]
        /\ UNCHANGED clk
        /\ ConcUnchanged

\* ret = clk_prepare_enable(efuse_clk); if (ret) return ret
CClkEnable ==
    \E p \in Callers, cr \in ClkRets :
        /\ thr[p].pc = "enable"
        /\ clk' = clk_prepare_enable(clk, cr)
        /\ IF cr # 0
           THEN thr' = [thr EXCEPT ![p].pc = "open", ![p].ret = I64(cr)]
           ELSE thr' = [thr EXCEPT ![p].pc = "read"]
        /\ ConcUnchanged

\* ret = mmio_read_32(EFUSE_SHADOW_REG + addr)
CShadowRead ==
    \E p \in Callers :
        /\ thr[p].pc = "read"
        /\ thr' = [thr EXCEPT ![p].pc = "disable",
                              ![p].ret = I64FromU32(shadow[thr[p].addr \div 4])]
        /\ UNCHANGED clk
        /\ ConcUnchanged

\* clk_disable_unprepare(efuse_clk); return ret
CClkDisable ==
    \E p \in Callers :
        /\ thr[p].pc = "disable"
        /\ clk' = clk_disable_unprepare(clk)
        /\ thr' = [thr EXCEPT ![p].pc = "open"]
        /\ ConcUnchanged

NextConc ==
    \/ COpen
    \/ CRelease
    \/ CEnter
    \/ CClkEnable
    \/ CShadowRead
    \/ CClkDisable

SpecConc == Init /\ [][NextConc]_vars

\* ------------------------------------------------------------------ claims: read path

IsReadBuf == last.op = "read_buf"
AddrOk(a) == a < EFUSE_SIZE /\ a % 4 = 0
Clamped(n) == IF n > EFUSE_SIZE THEN EFUSE_SIZE ELSE n
StrideOffs(n) == {i \in 0 .. (n - 1) : i % 4 = 0}
\* the strides of the last buffer read whose shadow read fails
FailStrides ==
    {i \in StrideOffs(Clamped(last.n)) :
        ~AddrOk(last.a + i) \/ (i \div 4) = last.failAt}

\* C4: for every addr that is >= 256 or not a multiple of 4, read_shadow
\* returns an error with no register access and no clock operation, and the
\* clock count is unchanged.
C4_InvalidAddrNoAccess ==
    (last.op = "read_shadow" /\ ~AddrOk(last.a)) =>
        /\ IsNeg64(last.r64)
        /\ last.ret = -EFAULT
        /\ last.log = <<>>
        /\ clk = last.clk0

C4_Witness ==
    /\ last.op = "read_shadow" /\ last.a = 257
    /\ IsNeg64(last.r64) /\ last.log = <<>>

\* C5: the public write entry point fails for every (addr, value) without a
\* register access or clock operation; over any sequence of public
\* operations the fuse array and the shadow never change, efuse_write never
\* advances the file offset and the write sequence is never entered.
C5_WriteAlwaysFails ==
    /\ fuse = snap.fuse /\ shadow = snap.shadow
    /\ pc = "idle" /\ calls = 0
    /\ last.op \in {"cvi_efuse_write", "efuse_write", "EFUSE_IOC_WRITE"} =>
          /\ last.ret < 0
          /\ last.log = <<>>
          /\ clk = last.clk0
    /\ last.op = "efuse_write" => offset = last.off

C5_Witness ==
    /\ last.op = "efuse_write" /\ last.n = 8 /\ AddrOk(last.a)
    /\ last.val = Bits32 /\ last.ret = WRITE_DISABLED_RET

\* C6 (as claimed): a successful read_buf returns the number of bytes filled
\* and, for each 4-byte stride i below the returned count, the destination
\* holds exactly the shadow word at addr + i, whatever it held before.
C6_BufHoldsShadowWords ==
    (IsReadBuf /\ last.ret >= 0) =>
        /\ last.ret = Clamped(last.n)
        /\ last.written = 0 .. (last.ret - 1)
        /\ \A i \in StrideOffs(last.ret) : \A k \in 0 .. 3 :
              last.mem[i + k] = ByteOf(shadow[(last.a + i) \div 4], k)

\* C6, the part that holds: for a size that is a multiple of 4 the claim is
\* true of the code.
C6_WholeStrides ==
    (IsReadBuf /\ last.ret >= 0 /\ last.n % 4 = 0) =>
        /\ last.ret = Clamped(last.n)
        /\ \A i \in StrideOffs(last.ret) : \A k \in 0 .. 3 :
              last.mem[i + k] = ByteOf(shadow[(last.a + i) \div 4], k)

\* C7 (as claimed): from every aligned addr below 256, a size reaching past
\* the end of the array succeeds and returns the bytes up to the bound.
C7_ClampToBoundFromAnyAddr ==
    (IsReadBuf /\ AddrOk(last.a) /\ last.a + last.n > EFUSE_SIZE
       /\ last.failAt = -1) =>
        last.ret = EFUSE_SIZE - last.a

\* C7 (amended): the size is clamped to the array size 256, not to the bytes
\* left after addr: from addr 0 every size above 256 returns exactly 256
\* (64 shadow reads); from an aligned addr in 1..255 a request reaching past
\* the end fails with -EFAULT at the stride that reaches address 256; no
\* shadow register beyond the array is read.
C7_ClampToArraySize ==
    (IsReadBuf /\ AddrOk(last.a) /\ last.a + last.n > EFUSE_SIZE
       /\ last.failAt = -1) =>
        /\ last.a = 0 => (last.ret = EFUSE_SIZE /\ Len(last.reads) = EFUSE_SIZE \div 4)
        /\ last.a > 0 => (last.ret = -EFAULT
                           /\ last.reads[Len(last.reads)] = EFUSE_SIZE)
        /\ \A k \in 1 .. Len(last.log) :
              last.log[k].ev = "mmio_read" => last.log[k].a < SHADOW_OFF + EFUSE_SIZE

C7_Witness ==
    /\ IsReadBuf /\ last.a = 0 /\ last.n = 1000 /\ last.failAt = -1
    /\ last.ret = EFUSE_SIZE

\* C8 (as claimed): read_buf stores only to destination offsets
\* [0, min(size, 256)).
C8_NoOverrun ==
    IsReadBuf => last.written \subseteq 0 .. (Clamped(last.n) - 1)

\* C9: read_buf stops at the first failing shadow read: it returns that
\* read's error (no byte count) and performs no shadow read for a later
\* stride.
C9_StopsAtFirstFailure ==
    (IsReadBuf /\ FailStrides # {}) =>
        LET i == MinOf(FailStrides)
        IN /\ last.ret = IF AddrOk(last.a + i) THEN -EINVAL ELSE -EFAULT
           /\ last.reads = [k \in 1 .. ((i \div 4) + 1) |-> last.a + 4 * (k - 1)]

C9_Witness ==
    /\ IsReadBuf /\ FailStrides # {}
    /\ MinOf(FailStrides) > 0
    /\ MinOf(FailStrides) + 4 < Clamped(last.n)
    /\ last.ret = -EINVAL

\* the clock events of one operation: a register read only between an enable
\* and the matching disable, nothing after a failed enable
LogOk(log, c0) ==
    \A k \in 1 .. Len(log) :
        /\ log[k].ev = "clk_enable" =>
              /\ log[k].clk = c0 + 1
              /\ k < Len(log) /\ log[k + 1].ev = "mmio_read"
        /\ log[k].ev = "mmio_read" =>
              /\ log[k].clk = c0 + 1
              /\ k > 1 /\ log[k - 1].ev = "clk_enable"
              /\ k < Len(log) /\ log[k + 1].ev = "clk_disable"
        /\ log[k].ev = "clk_disable" =>
              /\ log[k].clk = c0
              /\ k > 1 /\ log[k - 1].ev = "mmio_read"
        /\ log[k].ev = "clk_enable_fail" =>
              /\ log[k].clk = c0
              /\ k = Len(log)
              /\ last.ret = log[k].a

\* C10: every public read enables the clock, reads the shadow register only
\* while it is enabled and disables it again: on every exit path the enable
\* count is what it was at entry; a failed enable is followed by no read and
\* no disable and is what the operation returns.
C10_ClockBalanced ==
    last.op # "none" =>
        /\ clk = last.clk0
        /\ LogOk(last.log, last.clk0)

C10_Witness ==
    /\ IsReadBuf /\ Len(last.log) = 7
    /\ last.log[2].ev = "mmio_read" /\ last.log[7].ev = "clk_enable_fail"
    /\ last.ret = -EINVAL /\ clk = last.clk0

\* what read_shadow returns for an address at or past the end of the array
OutOfRangeRet ==
    IntFromI64(cvi_efuse_read_from_shadow(EFUSE_SIZE, 0, clk, shadow).ret)

\* C11 (as claimed): read_shadow reports a misaligned address and an
\* out-of-range address as distinct error kinds: what it returns for an
\* address that is not a multiple of 4 (Misaligned) differs from what it
\* returns for an address >= 256 (OutOfRange).
C11_DistinctErrorKinds ==
    (last.op = "read_shadow" /\ last.a % 4 # 0) =>
        /\ last.ret < 0
        /\ last.log = <<>>
        /\ last.ret # OutOfRangeRet

\* ------------------------------------------------------------------ claims: write path

\* the margin-read check (value & new_contents) == value fails on row j of
\* the word being written, as the fuse rows stand
RowFails(j) == (wr.val \cap fuse[2 * (wr.addr \div 4) + j].mrg) # wr.val

\* C1: after a write sequence on a valid addr whose write_word returned
\* success, and the refresh that ends it, read_shadow(addr) returns a value
\* with (result & v) == v, whatever the fuses held before and however the
\* pulses came out (one row may have failed its margin-read check).
C1_ShadowSupersetAfterWrite ==
    (/\ pc = "idle" /\ calls > 0 /\ wr.ran /\ wr.ret = 0
     /\ last.op = "read_shadow" /\ last.a = wr.addr /\ ~IsNeg64(last.r64)) =>
        (U32FromI64(last.r64) \cap wr.val) = wr.val

C1_Witness ==
    /\ pc = "idle" /\ wr.ran /\ wr.ret = 0 /\ wr.err_cnt = 1 /\ wr.nprog > 0
    /\ wr.val = Bits32
    /\ last.op = "read_shadow" /\ last.a = wr.addr
    /\ U32FromI64(last.r64) = Bits32

\* C2: write_word returns -EIO if and only if the margin-read check fails on
\* both physical rows of the word; with a failure on one row or on none it
\* returns 0.
C2_EioIffBothRowsFail ==
    wr.ran =>
        /\ (wr.wret = -EIO) <=> (RowFails(0) /\ RowFails(1))
        /\ (wr.wret # -EIO) => (wr.wret = 0)
        /\ wr.fail = {j \in {0, 1} : RowFails(j)}
        /\ wr.err_cnt = Cardinality(wr.fail)
        /\ pc = "idle" => wr.ret = wr.wret

C2_Witness ==
    /\ pc = "idle" /\ wr.ran /\ wr.nprog > 0
    /\ wr.err_cnt = 1 /\ RowFails(0) /\ ~RowFails(1) /\ wr.ret = 0

\* every bit of the first call's value reads as 1 in the array-read of both
\* rows once the first call is over
FirstCallSetAllBits ==
    \A j \in {0, 1} : snap.val \subseteq snap.fuse[2 * (snap.addr \div 4) + j].arr

\* C3 (as claimed): calling write_word(addr, v) twice in succession leaves
\* the fuse rows and the refreshed shadow as calling it once does.
C3_TwiceSameAsOnce ==
    (pc = "idle" /\ calls = 2 /\ snap.ran /\ wr.ran
       /\ wr.addr = snap.addr /\ wr.val = snap.val) =>
        (fuse = snap.fuse /\ shadow = snap.shadow)

\* C3 (amended): if after the first call every bit of v reads as 1 in the
\* array-read of both rows, a repeated write_word(addr, v) issues no program
\* command and leaves the fuse rows and the refreshed shadow as the first
\* call left them.
C3_IdempotentOnceSet ==
    (/\ calls >= 1 /\ snap.ran /\ (pc # "idle" \/ calls >= 2)
     /\ wr.addr = snap.addr /\ wr.val = snap.val
     /\ FirstCallSetAllBits) =>
        /\ fuse = snap.fuse
        /\ shadow = snap.shadow
        /\ wr.nprog = 0
        /\ wr.zero_bit = {}

C3_Witness ==
    /\ pc = "idle" /\ calls = 2 /\ snap.ran /\ wr.ran
    /\ wr.addr = snap.addr /\ wr.val = snap.val
    /\ FirstCallSetAllBits
    /\ snap.val = {0, 1, 2, 3} /\ snap.nprog > 0
    /\ wr.nprog = 0 /\ fuse = snap.fuse /\ shadow = snap.shadow

\* ------------------------------------------------------------------ claims: command order

RECURSIVE Ascending(_)
\* the elements of a set of integers in increasing order
Ascending(S) == IF S = {} THEN <<>>
                ELSE <<MinOf(S)>> \o Ascending(S \ {MinOf(S)})

IsPrefix(a, b) == Len(a) <= Len(b) /\ a = SubSeq(b, 1, Len(a))

\* positions of the trace holding an access of kind c in pass j
Idx(c, j) == {k \in 1 .. Len(wr.trace) : wr.trace[k].c = c /\ wr.trace[k].j = j}

\* the bit indices cvi_efuse_prog_bit was called with in pass j, in call order
ProgBits(j) ==
    LET s == SelectSeq(wr.trace, LAMBDA e : e.c = "prog" /\ e.j = j)
    IN [k \in 1 .. Len(s) |-> s[k].a]

\* C12: in each pass j of write_word, program_bit is invoked exactly for the
\* bits set in v and clear in the array-read of that pass, each once and in
\* increasing order; never for a bit the array-read reported as 1 or a bit
\* clear in v; and nothing is programmed again after the margin-read.
C12_ProgramsExactlyZeroBits ==
    /\ wr.nprog = Cardinality(Idx("prog", 0)) + Cardinality(Idx("prog", 1))
    /\ \A j \in {0, 1} :
          IF Len(wr.aread) <= j
          THEN ProgBits(j) = <<>>
          ELSE LET want == Ascending(wr.val \ wr.aread[j + 1])
                   got == ProgBits(j)
               IN IF wr.j = j /\ pc = "pb"
                  THEN /\ IsPrefix(got, want)
                       /\ Len(got) < Len(want)
                       /\ wr.i = want[Len(got) + 1]
                  ELSE got = want

C12_Witness ==
    /\ pc = "idle" /\ wr.ran /\ wr.addr = 4 /\ wr.val = {0, 1, 2, 3}
    /\ wr.aread = <<{0, 1}, {2, 3}>>
    /\ ProgBits(0) = <<2, 3>> /\ ProgBits(1) = <<0, 1>>
    /\ 0 \in wr.fail

\* C13: write_word(w, v) changes only the physical rows 2w and 2w+1 and in
\* them only bit positions set in v; every other row and bit is left as it
\* was, and no fuse bit ever goes from 1 to 0.
C13_OnlyTargetRowsAndBits ==
    [][LET w == wr.addr \div 4
       IN \A r \in Rows :
             /\ fuse[r].arr \subseteq fuse'[r].arr
             /\ fuse[r].mrg \subseteq fuse'[r].mrg
             /\ fuse'[r] # fuse[r] =>
                   /\ pc # "idle"
                   /\ r \in {2 * w, 2 * w + 1}
                   /\ (fuse'[r].arr \ fuse[r].arr) \subseteq wr.val
                   /\ (fuse'[r].mrg \ fuse[r].mrg) \subseteq wr.val]_vars

C13_Witness ==
    /\ pc = "idle" /\ wr.ran /\ calls = 1 /\ wr.addr = 4
    /\ wr.val = {0, 1, 2, 3}
    /\ fuse[2].arr = {0, 1, 2, 3} /\ fuse[3].arr = {0, 1, 2, 3}
    /\ \A r \in Rows \ {2, 3} : fuse[r] = FuseImage(1)[r]

\* the register accesses made by cvi_efuse_write_word and its callees
WwTrace == SelectSeq(wr.trace, LAMBDA e : e.fn # "write")

\* C15: write_word runs the pass for row 0 completely before the pass for
\* row 1; in a pass the array-read precedes every program command and the
\* margin-read follows them all; the refresh command (MODE := 0x30) is
\* issued exactly once, after both passes, as the last register write of
\* write_word, whether it returns success or the verification error.
C15_PassOrder ==
    LET T == WwTrace
        P(c, j) == {k \in 1 .. Len(T) : T[k].c = c /\ T[k].j = j}
        Pass(j) == {k \in 1 .. Len(T) : T[k].j = j /\ T[k].c # "refresh"}
        R == {k \in 1 .. Len(T) : T[k].c = "refresh"}
    IN /\ \A a \in Pass(0), b \in Pass(1) : a < b
       /\ Pass(1) # {} => Cardinality(P("mread", 0)) = 1
       /\ \A j \in {0, 1} :
             /\ Cardinality(P("aread", j)) <= 1
             /\ Cardinality(P("mread", j)) <= 1
             /\ \A m \in P("mread", j) : \E a \in P("aread", j) : a < m
             /\ \A p \in P("prog", j) :
                   /\ \E a \in P("aread", j) : a < p
                   /\ \A m \in P("mread", j) : p < m
       /\ Cardinality(R) <= 1
       /\ \A r \in R :
             /\ r = Len(T)
             /\ T[r].fn = "write_word"
             /\ Cardinality(P("mread", 0)) = 1
             /\ Cardinality(P("mread", 1)) = 1
       /\ wr.ran <=> R # {}
       /\ wr.ran => wr.wret \in {0, -EIO}
       /\ pc = "w_pwr" => MODE = EFUSE_CMD_REFRESH

C15_Witness ==
    /\ pc = "w_pwr" /\ wr.ran /\ wr.wret = -EIO
    /\ MODE = EFUSE_CMD_REFRESH
    /\ wr.trace[Len(wr.trace)].c = "refresh"
    /\ Idx("prog", 0) # {} /\ Idx("prog", 1) # {}

\* the kinds of trace entry that write MODE (a command) or ADR
CmdKinds == {"pwr", "aread", "mread", "prog", "refresh"}
WriteKinds == CmdKinds \cup {"adr"}

\* C16 (as claimed): every write to MODE or ADR in the write sequence comes
\* after a wait_for_ready that followed the previous command, and no such
\* write is about to be issued while the previous command is still busy.
C16_WritesOnlyAfterWait ==
    LET T == wr.trace
    IN /\ \A k \in 1 .. Len(T) : \A m \in 1 .. (k - 1) :
             (T[k].c \in WriteKinds /\ T[m].c \in CmdKinds) =>
                 \E w \in (m + 1) .. (k - 1) : T[w].c \in CmdKinds \cup {"wait"}
       /\ pc \in {"rp_pwr", "refresh", "w_pwr", "w_refresh"} => ~busy

\* C17: read_from_physical(addr, mode) powers on, waits until not busy,
\* writes ADDR := addr, writes MODE := (array-read or margin-read) | strobe,
\* waits until not busy and then reads READ-DATA, in this order; the value
\* it returns is the data of this read command for this addr: the array
\* view (array-read) or the margin view (margin-read) of the addressed row
\* as it stands, not the data of an earlier command.
C17_ReadFromPhyOrder ==
    LET T == wr.trace
        w == wr.addr \div 4
    IN \A k \in 1 .. Len(T) :
          (T[k].c = "rd") =>
              /\ k >= 6
              /\ [x \in 1 .. 6 |-> T[k - 6 + x].c] \in
                     {<<"pwr", "wait", "adr", rk, "wait", "rd">> :
                          rk \in {"aread", "mread"}}
              /\ \A x \in 1 .. 6 : /\ T[k - 6 + x].fn = "read_from_phy"
                                    /\ T[k - 6 + x].j = T[k].j
              /\ T[k - 3].a = phy_word_addr(w, T[k].j)
              /\ T[k].a = T[k - 3].a
              /\ k = Len(T) =>
                    LET row == fuse[phy_word_addr(w, T[k].j)]
                    IN /\ ~busy
                       /\ ADR = phy_word_addr(w, T[k].j)
                       /\ MODE = read_cmd(IF T[k - 2].c = "aread"
                                           THEN "EFUSE_AREAD" ELSE "EFUSE_MREAD")
                       /\ T[k - 2].c = "aread" =>
                             (wr.row_val = row.arr /\ RD_DATA = row.arr)
                       /\ T[k - 2].c = "mread" =>
                             (wr.new_value = row.mrg /\ RD_DATA = row.mrg)

C17_Witness ==
    /\ pc = "refresh" /\ wr.addr = 4 /\ wr.val = {0, 1, 2, 3}
    /\ wr.trace[Len(wr.trace)].c = "rd"
    /\ wr.trace[Len(wr.trace) - 2].c = "mread"
    /\ wr.row_val = {2, 3}
    /\ wr.new_value = {0, 2, 3} /\ fuse[3].mrg = {0, 2, 3}
    /\ fuse[3].arr = {0, 1, 2, 3}

\* the accesses a step adds to the trace
Added == {k \in 1 .. Len(wr.trace)' : k > Len(wr.trace)}

\* C20: wait_for_ready has no timeout path: it returns only from a state in
\* which the busy bit is 0; if the macro clears busy after every command,
\* every wait ends, write_word returns and the write sequence returns;
\* write_word issues at most 2 array-reads, 32 program commands per row
\* (64 in all), 2 margin-reads and 1 refresh.
C20_WaitsEndAndBounded ==
    /\ [][/\ (\E k \in Added : wr.trace'[k].c = "wait") => ~busy
          /\ (LET T == WwTrace
                   N(c) == Cardinality({k \in 1 .. Len(T) : T[k].c = c})
               IN /\ N("aread") <= 2 /\ N("mread") <= 2 /\ N("refresh") <= 1
                  /\ N("prog") <= 64
                  /\ \A j \in {0, 1} :
                        Cardinality(Idx("prog", j)) <= Cardinality(wr.val \cap Bits32)
                  /\ wr.ran => (N("aread") = 2 /\ N("mread") = 2
                                  /\ N("refresh") = 1))']_vars
    /\ (pc # "idle" /\ ~wr.ran) ~> wr.ran
    /\ (pc # "idle") ~> (pc = "idle")

C20_Witness ==
    /\ pc = "idle" /\ wr.ran /\ wr.nprog = 4
    /\ wr.trace[Len(wr.trace)] = Tr("write", "wait", 1, 0)
    /\ Cardinality({k \in 1 .. Len(wr.trace) : wr.trace[k].c = "wait"}) = 13
    /\ ~busy

\* ------------------------------------------------------------------ claims: register functions

\* C14: the program address is (bit << 7) | (word << 1) | row: for word in
\* 0..63, bit in 0..31 and row in {0, 1} the three fields can be read back
\* from it (so it is injective), it fits in 12 bits and its low 7 bits are
\* the row address (word << 1) | row that write_word passes to the
\* array-read and the margin-read; for a word address >= 64 the program
\* address keeps only the low 6 bits of the word, the read address does not.
C14_PhyAddrPacksRow ==
    last.op = "prog_bit" =>
        LET word == last.a
            bit == last.n
            row == last.off
        IN /\ ADR \in 0 .. 4095
           /\ ADR \div 128 = bit
           /\ ADR % 2 = row
           /\ word <= 63 =>
                 /\ (ADR \div 2) % 64 = word
                 /\ ADR % 128 = phy_word_addr(word, row)
           /\ word >= 64 =>
                 /\ ADR % 128 # phy_word_addr(word, row)
                 /\ ADR % 128 = phy_word_addr(word - 64, row)

C14_Witness ==
    /\ last.op = "prog_bit" /\ last.a = 63 /\ last.n = 31 /\ last.off = 1
    /\ ADR = 4095 /\ phy_word_addr(63, 1) = 127

\* C18 (as claimed): power_control(false) sets the power-down bit together
\* with the strobe bit; power_control(true) clears the power-down bit (strobe
\* set): whatever MODE held before, the power-down bit is 0 afterwards.
C18_PowerOnClearsPwrDn ==
    last.op = "power_on" =>
        /\ HasBits(MODE, EFUSE_BIT_CMD)
        /\ last.n = 0 => HasBits(MODE, EFUSE_BIT_PWR_DN)
        /\ last.n = 1 => ~HasBits(MODE, EFUSE_BIT_PWR_DN)

\* ------------------------------------------------------------------ claims: concurrency

\* the callers that are inside the clock / register sequence of an operation
Inside == {p \in Callers : thr[p].pc \in {"read", "disable"}}

\* C19 (as claimed): the character device serializes its callers: no two
\* operations are ever inside their clock / register sequence at the same
\* time.
C19_Serialized == Cardinality(Inside) <= 1

\* ------------------------------------------------------------------ shadow word values

\* a programmed array whose shadow words cover the 32-bit range: word 0
\* (address 0) holds v, word 1 (address 4) holds v with bit 31 set, the last
\* word (address 252) holds 0xFFFFFFFF
WordImage(v) ==
    [r \in Rows |->
        CASE r = 0 -> Row(v, v)
          [] r = 2 -> Row(v \cup {31}, v \cup {31})
          [] r = NumRows - 2 -> Row(Bits32, Bits32)
          [] OTHER -> Blank]

InitWords ==
    /\ \E v \in Values : fuse = WordImage(v)
    /\ shadow = Refreshed(fuse)
    /\ MODE = 0 /\ ADR = 0 /\ RD_DATA = {} /\ busy = FALSE
    /\ clk = 0
    /\ offset = 0
    /\ last = NoOp
    /\ pc = "idle" /\ wr = WrIdle /\ calls = 0
    /\ snap = [fuse |-> fuse, shadow |-> shadow, addr |-> 0, val |-> {},
               ret |-> 0, nprog |-> 0, ran |-> FALSE]
    /\ thr = [p \in Callers |-> ThrIdle]

\* the public operations of the driver over the word images
SpecWords == InitWords /\ [][Next]_vars

\* ------------------------------------------------------------------ claims: result width

\* the address passes both checks of cvi_efuse_read_from_shadow
ValidAddr(a) == a < EFUSE_SIZE /\ a % 4 = 0
\* clk_prepare_enable failed during the operation
ClkFailed(log) == \E k \in 1 .. Len(log) : log[k].ev = "clk_enable_fail"

\* C21: for every 32-bit shadow word value, 0xFFFFFFFF and the values with
\* bit 31 set included, a successful read_shadow returns exactly that value
\* as a non-negative 64-bit result; the 'ret < 0' checks of read_buf and of
\* the EFUSE_IOC_READ path never take a successful read for an error, and a
\* negative result always means an error (invalid address or clock failure).
C21_ShadowValueNeverNegative ==
    /\ last.op = "read_shadow" =>
          /\ (ValidAddr(last.a) /\ ~ClkFailed(last.log)) =>
                (last.r64 = shadow[last.a \div 4] /\ ~IsNeg64(last.r64))
          /\ IsNeg64(last.r64) <=> (~ValidAddr(last.a) \/ ClkFailed(last.log))
    /\ last.op = "EFUSE_IOC_READ" =>
          /\ last.ret \in {0, -EFAULT, -EINVAL}
          /\ (ValidAddr(last.a) /\ ~ClkFailed(last.log)) =>
                /\ last.ret \in {0, -EFAULT}
                /\ last.ret = 0 => last.val = shadow[last.a \div 4]
    /\ (last.op = "read_buf" /\ ValidAddr(last.a)
          /\ last.a + last.n <= EFUSE_SIZE /\ ~ClkFailed(last.log)) =>
          /\ last.ret = last.n
          /\ \A i \in 0 .. (last.n - 1) :
                last.mem[i] = ByteOf(shadow[(last.a + i) \div 4], (last.a + i) % 4)

\* a successful read_shadow of a word holding 0xFFFFFFFF
C21_Witness ==
    /\ last.op = "read_shadow" /\ last.a = 252 /\ ~ClkFailed(last.log)
    /\ shadow[63] = Bits32 /\ last.r64 = Bits32

\* ------------------------------------------------------------------ claims: sequential read

\* byte k of the 256-byte shadow window
ShadowByte(k) == ByteOf(shadow[k \div 4], k % 4)
\* the number of bytes a read of count bytes at offset off may deliver
Chunk(count, off) == IF off + count > EFUSE_SIZE THEN EFUSE_SIZE - off ELSE count

\* what holds of every efuse_read call whatever its offset: the offset moves
\* by the bytes returned and only then, it never passes 256, the bytes
\* returned are the shadow bytes from the offset on, and at end of file the
\* call returns 0 without a register access
ReadCallSound ==
    /\ offset <= EFUSE_SIZE
    /\ last.op = "efuse_read" =>
          /\ last.off >= EFUSE_SIZE =>
                (last.ret = 0 /\ last.log = <<>> /\ offset = last.off)
          /\ last.ret < 0 => offset = last.off
          /\ last.ret >= 0 =>
                /\ last.ret <= EFUSE_SIZE - last.off
                /\ offset = last.off + last.ret
                /\ Len(last.out) = last.ret
                /\ \A k \in 1 .. last.ret : last.out[k] = ShadowByte(last.off + k - 1)

\* the call is not made to fail from outside: copy_to_user and the clock work
Undisturbed == ~last.fault /\ ~ClkFailed(last.log)

\* C22 (as claimed): reading sequentially from offset 0 with any positive
\* chunk size delivers the 256 shadow bytes in order and then returns 0:
\* every undisturbed call below the end returns the next min(count, 256 -
\* offset) bytes, advances the offset by exactly that, leaves it unchanged on
\* error and never past 256, and a call at the end returns 0 without any
\* register access.
C22_SequentialRead ==
    /\ ReadCallSound
    /\ (last.op = "efuse_read" /\ last.off < EFUSE_SIZE /\ Undisturbed) =>
          last.ret = Chunk(last.n, last.off)

\* what the code does: the chunk is delivered when the offset is a multiple
\* of 4; from any other offset the call fails with -EFAULT before any
\* register access and the offset stays where it is
C22_AlignedChunksOnly ==
    /\ ReadCallSound
    /\ (last.op = "efuse_read" /\ last.off < EFUSE_SIZE /\ Undisturbed) =>
          IF last.off % 4 = 0
          THEN last.ret = Chunk(last.n, last.off)
          ELSE last.ret = -EFAULT /\ last.log = <<>> /\ offset = last.off

\* a 5-byte read has left the offset at 5 and the next read failed there
C22_Stuck ==
    /\ last.op = "efuse_read" /\ last.off = 5 /\ Undisturbed
    /\ last.ret = -EFAULT /\ offset = 5

====
